---- MODULE Spec2Model ----
(***************************************************************************)
(* A model of src/backend/pipelines/ocr_pipeline.py:                       *)
(*   - extract_text_from_documents and the extractors it dispatches to,    *)
(*     as the asyncio tasks they run as (specification Spec);              *)
(*   - retry_gemini_async, step by step (specification SpecRetry);         *)
(*   - remove_repetition (specification SpecClean),                        *)
(* and of split_documents of classification_pipeline.py (SpecSplit).       *)
(* A task runs without interruption from one await that suspends to the    *)
(* next, so one action is one such run.                                    *)
(***************************************************************************)
EXTENDS Integers, Sequences, FiniteSets, TLC

VARIABLES
    file_paths,       \* the batch: a sequence of document references
    max_concurrency,  \* K, the value the semaphore is built with
    sem,              \* asyncio.Semaphore: its free slots
    pc,               \* per task: "waiting" | "pages" | "remote" | "done" | "cancelled"
    pages,            \* per task: the remote calls it made, one record per page
    rasterLog,        \* per task: the dpi of every convert_from_path call
    logged,           \* per task: the error its extractor logged ("" if none)
    results,          \* per task: what gather collects for it
    finished,         \* the task indices in the order the tasks ended
    bpc,              \* the batch call: "gather" | "returned" | "raised" | "cancelled"
    output,           \* the dict extract_text_from_documents builds
    cancelling,       \* the caller has cancelled the call, which has not ended yet
    retries,          \* retry_gemini_async: its arguments ...
    delays,
    succeedAt,        \* ... the invocation of generate_fn that succeeds (0: none)
    rpc,              \* "idle" | "loop" | "call" | "returned" | "raised"
    attempt,          \* the loop index, 0-based
    trace,            \* the sleeps and invocations made, in order
    rresult,          \* what the call returned or raised
    text,             \* remove_repetition, split_documents: the text given
    max_consecutive,
    cpc,              \* "idle" | "input" | "cleaned" | "recleaned"
    cleaned,          \* remove_repetition(text, max_consecutive)
    recleaned,        \* remove_repetition(cleaned, max_consecutive)
    is_claim,         \* split_documents: classification.is_claim
    spc,              \* "idle" | "input" | "split"
    sections          \* the dict split_documents returns

batchVars == <<file_paths, max_concurrency, sem, pc, pages, rasterLog, logged,
               results, finished, bpc, output, cancelling>>
retryVars == <<retries, delays, succeedAt, rpc, attempt, trace, rresult>>
cleanVars == <<text, max_consecutive, cpc, cleaned, recleaned>>
splitVars == <<is_claim, spc, sections>>
vars == <<batchVars, retryVars, cleanVars, splitVars>>

----------------------------------------------------------------------------
(* Bounds of the model. *)
MaxDocs == 3
MaxK == 2
MaxPages == 2
MaxRetries == 4
MaxDelays == 3
MaxTextLen == 7
MaxConsecutive == 5

(* Program constants. *)
CONVERSION_DPI == 200
FALLBACK_DPI == 100
SeparatorMin == 5
DefaultRetries == 3
DefaultDelays == <<0, 60, 180>>

Min(a, b) == IF a <= b THEN a ELSE b

----------------------------------------------------------------------------
(* Document references.  "notapath" stands for a list element that is not  *)
(* a Path (a plain str): path.name raises AttributeError on it.            *)
Universe == <<"a.pdf", "b.jpg", "c.docx", "d.png", "e.txt", "notapath">>

\* '.docx' dispatched to extract_from_image
KindOfDocxAsImage(path) ==
    CASE path = "a.pdf" -> "pdf"
      [] path \in {"b.jpg", "c.docx", "d.png"} -> "image"
      [] path = "notapath" -> "notapath"
      [] OTHER -> "unsupported"

\* path.suffix.lower() and the if/elif chain of _extract_single
KindOf(path) ==
    CASE path = "a.pdf" -> "pdf"
      [] path = "c.docx" -> "docx"
      [] path \in {"b.jpg", "d.png"} -> "image"
      [] path = "notapath" -> "notapath"
      [] OTHER -> "unsupported"

\* The k-th smallest element of a set of integers.
Nth(S, k) == CHOOSE x \in S : Cardinality({y \in S : y < x}) = k - 1

\* The batches: the non-empty selections of at most MaxDocs distinct references.
Batches ==
    { [i \in 1..Cardinality(S) |-> Universe[Nth(S, i)]] :
        S \in { T \in SUBSET (1..Len(Universe)) :
                  Cardinality(T) >= 1 /\ Cardinality(T) <= MaxDocs } }

Tasks == 1..Len(file_paths)

----------------------------------------------------------------------------
(* Texts are sequences of tokens; "" is the empty sequence.                *)
EmptyText == << >>
Tok(t, p, s) == [t |-> t, p |-> p, s |-> s]
\* f"\n--- Page {i+1} ---\n{text}\n"
PageBlock(path, i) == <<Tok("header", i, ""), Tok("ocr", i, path)>>
\* f"\n[Page {i+1} extraction failed]\n"
FailBlock(i) == <<Tok("failed", i, "")>>
\* the first paragraph alone
DocxFirstParagraph(path) == <<Tok("para", 1, path)>>
\* "\n".join(paragraphs + tables_text) of a document with two paragraphs
DocxText(path) == <<Tok("para", 1, path), Tok("para", 2, path)>>
\* the text the remote call returns for the one page of an image
ImageText(path) == <<Tok("ocr", 1, path)>>

\* One remote call: extract_text_from_image_content, in flight or ended.
\* seq tells the how-manieth of its document's page calls it was to end.
Call(st) == [st |-> st, calls |-> 1, seq |-> 0]

\* the same loop leaving a failed page out, without its marker
RECURSIVE CombineDropFailed(_, _, _)
CombineDropFailed(path, pgs, n) ==
    IF n = 0 THEN EmptyText
    ELSE CombineDropFailed(path, pgs, n - 1) \o
         (IF pgs[n].st = "failed" THEN << >> ELSE PageBlock(path, n))

\* the pages taken in the order their calls ended
RECURSIVE CombineByCompletion(_, _, _)
CombineByCompletion(path, pgs, n) ==
    IF n = 0 THEN EmptyText
    ELSE LET q == CHOOSE i \in DOMAIN pgs : pgs[i].seq = n
         IN  CombineByCompletion(path, pgs, n - 1) \o
             (IF pgs[q].st = "failed" THEN FailBlock(q) ELSE PageBlock(path, q))

\* The loop of extract_from_pdf over page_texts, pages 1..n in index order.
RECURSIVE Combine(_, _, _)
Combine(path, pgs, n) ==
    IF n = 0 THEN EmptyText
    ELSE Combine(path, pgs, n - 1) \o
         (IF pgs[n].st = "failed" THEN FailBlock(n) ELSE PageBlock(path, n))

\* What a task hands to gather.
NoResult == [kind |-> "none", path |-> "", text |-> EmptyText]
\* every task returns the first reference of the batch as its path
TupleResultFirstPath(path, txt) == [kind |-> "tuple", path |-> file_paths[1], text |-> txt]
TupleResult(path, txt) == [kind |-> "tuple", path |-> path, text |-> txt]
ExceptionResult == [kind |-> "exception", path |-> "", text |-> EmptyText]

----------------------------------------------------------------------------
(* The batch: extract_text_from_documents.                                 *)

BInit ==
    /\ file_paths \in Batches
    /\ max_concurrency \in 1..MaxK
    /\ sem = max_concurrency
    /\ pc = [d \in 1..Len(file_paths) |-> "waiting"]
    /\ pages = [d \in 1..Len(file_paths) |-> << >>]
    /\ rasterLog = [d \in 1..Len(file_paths) |-> << >>]
    /\ logged = [d \in 1..Len(file_paths) |-> ""]
    /\ results = [d \in 1..Len(file_paths) |-> NoResult]
    /\ finished = << >>
    /\ bpc = "gather"
    /\ output = [x \in {} |-> EmptyText]
    /\ cancelling = FALSE

\* The task ends: its coroutine returns or raises, and gather keeps `res`.
Finish(d, res) ==
    /\ pc' = [pc EXCEPT ![d] = "done"]
    /\ results' = [results EXCEPT ![d] = res]
    /\ finished' = Append(finished, d)

\* the slots are never handed back
ReleaseLost(s, n) == s

\* every task hands its slot back twice
ReleaseTwice(s, n) == s + 2 * n

\* `async with sem` is left by n tasks, whichever way: each calls
\* sem.release() once.
Release(s, n) == s + n

\* a task enters whether or not a slot is free
CanEnterAlways(d, kind) ==
    /\ d \in Tasks
    /\ pc[d] = "waiting"
    /\ KindOf(file_paths[d]) = kind

\* `async with sem` is entered: a task waits until a slot is free.
CanEnter(d, kind) ==
    /\ d \in Tasks
    /\ pc[d] = "waiting"
    /\ sem > 0
    /\ KindOf(file_paths[d]) = kind

\* logger.info(f"Processing {path.name}...") raises AttributeError on an
\* element that is no Path; `async with` releases the slot on the way out.
EnterNotAPath(d) ==
    /\ CanEnter(d, "notapath")
    /\ sem' = Release(sem - 1, 1)
    /\ Finish(d, ExceptionResult)
    /\ UNCHANGED <<file_paths, max_concurrency, pages, rasterLog, logged, bpc, output>>

\* the else branch: a warning, text = "", no await in between
EnterUnsupported(d) ==
    /\ CanEnter(d, "unsupported")
    /\ sem' = Release(sem - 1, 1)
    /\ Finish(d, TupleResult(file_paths[d], EmptyText))
    /\ UNCHANGED <<file_paths, max_concurrency, pages, rasterLog, logged, bpc, output>>

\* extract_from_docx: python-docx reads the file, or raises and "" is returned
EnterDocx(d) ==
    /\ CanEnter(d, "docx")
    /\ sem' = Release(sem - 1, 1)
    /\ \E ok \in BOOLEAN :
         IF ok
         THEN /\ Finish(d, TupleResult(file_paths[d], DocxText(file_paths[d])))
              /\ logged' = logged
         ELSE /\ Finish(d, TupleResult(file_paths[d], EmptyText))
              /\ logged' = [logged EXCEPT ![d] = "DOCX extraction failed"]
    /\ UNCHANGED <<file_paths, max_concurrency, pages, rasterLog, bpc, output>>

\* extract_from_pdf up to its await: convert_from_path at CONVERSION_DPI raises
\* (caught: "" is returned), or yields n pages and gather starts one remote
\* call per page, all at once.  gather of no task does not suspend.
EnterPdf(d) ==
    /\ CanEnter(d, "pdf")
    /\ rasterLog' = [rasterLog EXCEPT ![d] = Append(@, CONVERSION_DPI)]
    /\ \E n \in (0..MaxPages) \cup {-1} :
         IF n = -1
         THEN /\ Finish(d, TupleResult(file_paths[d], EmptyText))
              /\ logged' = [logged EXCEPT ![d] = "PDF conversion failed"]
              /\ sem' = Release(sem - 1, 1)
              /\ pages' = pages
         ELSE IF n = 0
         THEN /\ Finish(d, TupleResult(file_paths[d], Combine(file_paths[d], << >>, 0)))
              /\ sem' = Release(sem - 1, 1)
              /\ UNCHANGED <<logged, pages>>
         ELSE /\ pages' = [pages EXCEPT ![d] = [i \in 1..n |-> Call("active")]]
              /\ pc' = [pc EXCEPT ![d] = "pages"]
              /\ sem' = sem - 1
              /\ UNCHANGED <<logged, results, finished>>
    /\ UNCHANGED <<file_paths, max_concurrency, bpc, output>>

\* One page's remote call ends: it returns the page's text or raises, and
\* gather(return_exceptions=True) of extract_from_pdf keeps either.
PageEnds(d, p) ==
    /\ d \in Tasks
    /\ pc[d] = "pages"
    /\ p \in DOMAIN pages[d]
    /\ pages[d][p].st = "active"
    /\ \E st \in {"ok", "failed"} :
         pages' = [pages EXCEPT ![d][p] =
                     [@ EXCEPT !.st = st,
                               !.seq = 1 + Cardinality({q \in DOMAIN pages[d] :
                                                          pages[d][q].st # "active"})]]
    /\ UNCHANGED <<file_paths, max_concurrency, sem, pc, rasterLog, logged,
                   results, finished, bpc, output>>

\* All page calls have ended: extract_from_pdf combines the pages and
\* returns, _extract_single returns and releases its slot.
PdfReturns(d) ==
    /\ d \in Tasks
    /\ pc[d] = "pages"
    /\ \A p \in DOMAIN pages[d] : pages[d][p].st # "active"
    /\ Finish(d, TupleResult(file_paths[d],
                             Combine(file_paths[d], pages[d], Len(pages[d]))))
    /\ sem' = Release(sem, 1)
    /\ UNCHANGED <<file_paths, max_concurrency, pages, rasterLog, logged, bpc, output>>

\* extract_from_image up to its await: Image.open raises (caught: ""), or
\* the one remote call is started.
EnterImage(d) ==
    /\ CanEnter(d, "image")
    /\ \E opened \in BOOLEAN :
         IF opened
         THEN /\ pages' = [pages EXCEPT ![d] = <<Call("active")>>]
              /\ pc' = [pc EXCEPT ![d] = "remote"]
              /\ sem' = sem - 1
              /\ UNCHANGED <<logged, results, finished>>
         ELSE /\ Finish(d, TupleResult(file_paths[d], EmptyText))
              /\ logged' = [logged EXCEPT ![d] = "Image extraction failed"]
              /\ sem' = Release(sem - 1, 1)
              /\ pages' = pages
    /\ UNCHANGED <<file_paths, max_concurrency, rasterLog, bpc, output>>

\* The image's remote call ends: its text is returned, or it raises and
\* extract_from_image returns ""; either way the slot is released.
ImageReturns(d) ==
    /\ d \in Tasks
    /\ pc[d] = "remote"
    /\ sem' = Release(sem, 1)
    /\ \E ok \in BOOLEAN :
         IF ok
         THEN /\ pages' = [pages EXCEPT ![d][1].st = "ok"]
              /\ Finish(d, TupleResult(file_paths[d], ImageText(file_paths[d])))
              /\ logged' = logged
         ELSE /\ pages' = [pages EXCEPT ![d][1].st = "failed"]
              /\ Finish(d, TupleResult(file_paths[d], EmptyText))
              /\ logged' = [logged EXCEPT ![d] = "Image extraction failed"]
    /\ UNCHANGED <<file_paths, max_concurrency, rasterLog, bpc, output>>

\* gather called without return_exceptions=True
NoReturnExceptions == FALSE

\* asyncio.gather(*tasks, return_exceptions=True)
ReturnExceptions == TRUE

\* gather ends when every task has ended; without return_exceptions it
\* raises the first exception as soon as a task raises, the others going on.
GatherRaises ==
    /\ ~ReturnExceptions
    /\ \E d \in Tasks : results[d].kind = "exception"
GatherResumes ==
    \/ \A d \in Tasks : pc[d] = "done"
    \/ GatherRaises

\* a test that recognises no result as an exception
IsExceptionNever(r) == FALSE

\* isinstance(result, Exception)
IsException(r) == r.kind = "exception"

\* `path, text = result` raises TypeError on what is no tuple
UnpackRaises(res) ==
    \E i \in DOMAIN res : ~IsException(res[i]) /\ res[i].kind # "tuple"

\* The dict after the first n results: an exception is logged and skipped,
\* a tuple is stored under its path.
RECURSIVE Collected(_, _)
Collected(res, n) ==
    IF n = 0 THEN [x \in {} |-> EmptyText]
    ELSE LET out == Collected(res, n - 1)
             r == res[n]
         IN  IF IsException(r) THEN out
             ELSE [x \in DOMAIN out \cup {r.path} |->
                     IF x = r.path THEN r.text ELSE out[x]]

\* gather hands back the results, the loop builds the dict and it is returned.
Collect ==
    /\ bpc = "gather"
    /\ GatherResumes
    /\ IF GatherRaises \/ UnpackRaises(results)
       THEN bpc' = "raised" /\ output' = output
       ELSE bpc' = "returned" /\ output' = Collected(results, Len(results))
    /\ UNCHANGED <<file_paths, max_concurrency, sem, pc, pages, rasterLog,
                   logged, results, finished>>

RIdle ==
    /\ retries = 0
    /\ delays = << >>
    /\ succeedAt = 0
    /\ rpc = "idle"
    /\ attempt = 0
    /\ trace = << >>
    /\ rresult = [kind |-> "none", n |-> 0]

CIdle ==
    /\ text = << >>
    /\ max_consecutive = 1
    /\ cpc = "idle"
    /\ cleaned = << >>
    /\ recleaned = << >>

\* split_documents is not running
NoSections == [medical |-> << >>, claim |-> << >>]
SIdle ==
    /\ is_claim = "None"
    /\ spc = "idle"
    /\ sections = NoSections

Init == BInit /\ RIdle /\ CIdle /\ SIdle

Next ==
    \/ \E d \in Tasks : EnterNotAPath(d) /\ UNCHANGED <<cancelling, retryVars, cleanVars, splitVars>>
    \/ \E d \in Tasks : EnterUnsupported(d) /\ UNCHANGED <<cancelling, retryVars, cleanVars, splitVars>>
    \/ \E d \in Tasks : EnterDocx(d) /\ UNCHANGED <<cancelling, retryVars, cleanVars, splitVars>>
    \/ \E d \in Tasks : EnterPdf(d) /\ UNCHANGED <<cancelling, retryVars, cleanVars, splitVars>>
    \/ \E d \in Tasks : EnterImage(d) /\ UNCHANGED <<cancelling, retryVars, cleanVars, splitVars>>
    \/ \E d \in Tasks : \E p \in 1..MaxPages : PageEnds(d, p) /\ UNCHANGED <<cancelling, retryVars, cleanVars, splitVars>>
    \/ \E d \in Tasks : PdfReturns(d) /\ UNCHANGED <<cancelling, retryVars, cleanVars, splitVars>>
    \/ \E d \in Tasks : ImageReturns(d) /\ UNCHANGED <<cancelling, retryVars, cleanVars, splitVars>>
    \/ Collect /\ UNCHANGED <<cancelling, retryVars, cleanVars, splitVars>>

Spec == Init /\ [][Next]_vars

----------------------------------------------------------------------------
(* The batch when its caller may cancel it.                                *)

CancelledResult == [kind |-> "cancelled", path |-> "", text |-> EmptyText]

\* What cancelling the call does at once: the await of gather is cancelled,
\* gather cancels every task, and a task that awaits cancels what it awaits
\* (its remote call, or the gather of its page calls and with it every page
\* call).  From then on nothing is admitted and nothing ends normally; the
\* tasks unwind one event-loop callback at a time while the call still
\* awaits gather.  The call can be cancelled whenever it awaits gather, also
\* when every task has ended and it has not resumed yet.
Cancel ==
    /\ bpc = "gather"
    /\ ~cancelling
    /\ cancelling' = TRUE
    /\ UNCHANGED <<file_paths, max_concurrency, sem, pc, pages, rasterLog, logged,
                   results, finished, bpc, output>>

\* A page call of a PDF ends with CancelledError; the gather of
\* extract_from_pdf waits for the other pages.
PageCancelled(d, p) ==
    /\ cancelling
    /\ d \in Tasks
    /\ pc[d] = "pages"
    /\ p \in DOMAIN pages[d]
    /\ pages[d][p].st = "active"
    /\ pages' = [pages EXCEPT ![d][p].st = "cancelled"]
    /\ UNCHANGED <<file_paths, max_concurrency, sem, pc, rasterLog, logged,
                   results, finished, bpc, output, cancelling>>

\* All page calls of a PDF have ended: CancelledError is raised at the await
\* of extract_from_pdf, passes its `except Exception`, and `async with sem`
\* releases the slot on the way out of the task.
PdfCancelled(d) ==
    /\ cancelling
    /\ d \in Tasks
    /\ pc[d] = "pages"
    /\ \A p \in DOMAIN pages[d] : pages[d][p].st # "active"
    /\ pc' = [pc EXCEPT ![d] = "cancelled"]
    /\ results' = [results EXCEPT ![d] = CancelledResult]
    /\ sem' = Release(sem, 1)
    /\ UNCHANGED <<file_paths, max_concurrency, pages, rasterLog, logged,
                   finished, bpc, output, cancelling>>

\* The remote call of an image is awaited by the task itself: CancelledError
\* is raised in it, passes the `except Exception` of extract_from_image, and
\* the slot is released on the way out of the task.
ImageCancelled(d) ==
    /\ cancelling
    /\ d \in Tasks
    /\ pc[d] = "remote"
    /\ pages' = [pages EXCEPT ![d][1].st = "cancelled"]
    /\ pc' = [pc EXCEPT ![d] = "cancelled"]
    /\ results' = [results EXCEPT ![d] = CancelledResult]
    /\ sem' = Release(sem, 1)
    /\ UNCHANGED <<file_paths, max_concurrency, rasterLog, logged, finished,
                   bpc, output, cancelling>>

\* A task that had not entered `async with sem` ends with CancelledError
\* without ever holding a slot.
WaitingCancelled(d) ==
    /\ cancelling
    /\ d \in Tasks
    /\ pc[d] = "waiting"
    /\ pc' = [pc EXCEPT ![d] = "cancelled"]
    /\ results' = [results EXCEPT ![d] = CancelledResult]
    /\ UNCHANGED <<file_paths, max_concurrency, sem, pages, rasterLog, logged,
                   finished, bpc, output, cancelling>>

\* Every task has ended: the await of gather raises CancelledError in
\* extract_text_from_documents, nothing catches it and nothing is returned.
GatherCancelled ==
    /\ cancelling
    /\ bpc = "gather"
    /\ \A d \in Tasks : pc[d] \in {"done", "cancelled"}
    /\ bpc' = "cancelled"
    /\ UNCHANGED <<file_paths, max_concurrency, sem, pc, pages, rasterLog, logged,
                   results, finished, output, cancelling>>

NextCancel ==
    \/ ~cancelling /\ Next
    \/ Cancel /\ UNCHANGED <<retryVars, cleanVars, splitVars>>
    \/ \E d \in Tasks : \E p \in 1..MaxPages :
         PageCancelled(d, p) /\ UNCHANGED <<retryVars, cleanVars, splitVars>>
    \/ \E d \in Tasks : PdfCancelled(d) /\ UNCHANGED <<retryVars, cleanVars, splitVars>>
    \/ \E d \in Tasks : ImageCancelled(d) /\ UNCHANGED <<retryVars, cleanVars, splitVars>>
    \/ \E d \in Tasks : WaitingCancelled(d) /\ UNCHANGED <<retryVars, cleanVars, splitVars>>
    \/ GatherCancelled /\ UNCHANGED <<retryVars, cleanVars, splitVars>>

SpecCancel == Init /\ [][NextCancel]_vars

\* The event loop runs every task that can run, and every remote call
\* ends: a step that stays possible is taken.
SpecLive == Init /\ [][Next]_vars /\ WF_vars(Next)

----------------------------------------------------------------------------
(* retry_gemini_async(generate_fn, retries, delays).  generate_fn raises   *)
(* on every invocation but its succeedAt-th, which returns.  The schedules *)
(* tried have at least one delay.                                          *)

DelayValues == {0, 60, 180}

\* the sequences over S of length at most n
RECURSIVE SeqsUpTo(_, _)
SeqsUpTo(S, n) ==
    IF n = 0 THEN {<< >>}
    ELSE LET shorter == SeqsUpTo(S, n - 1)
         IN  shorter \cup {Append(q, x) : q \in shorter, x \in S}

\* delays[:retries], for retries >= 0
Schedule(ds, r) == SubSeq(ds, 1, Min(r, Len(ds)))

\* the delay of the attempt after this one
DelayOfNext(ds, r, a) == IF a + 2 <= Len(ds) THEN ds[a + 2] ELSE 0

\* the delay enumerate() pairs with the 0-based attempt
DelayOf(ds, r, a) == Schedule(ds, r)[a + 1]

Sleep(d) == [e |-> "sleep", v |-> d, ok |-> TRUE]
Invocation(n, ok) == [e |-> "call", v |-> n, ok |-> ok]
Invocations == SelectSeq(trace, LAMBDA ev : ev.e = "call")

None == [kind |-> "none", n |-> 0]
Value(n) == [kind |-> "value", n |-> n]
Error(n) == [kind |-> "error", n |-> n]

\* the same test, one attempt early
IsLastAttemptEarly(a, r) == a = r - 2

\* no attempt re-raises
IsLastAttemptNever(a, r) == FALSE

\* `if attempt == retries - 1: raise`
IsLastAttempt(a, r) == a = r - 1

RInit ==
    /\ retries \in 0..MaxRetries
    /\ delays \in SeqsUpTo(DelayValues, MaxDelays) \ {<< >>}
    /\ succeedAt \in 0..MaxRetries
    /\ rpc = "loop"
    /\ attempt = 0
    /\ trace = << >>
    /\ rresult = None

\* The for loop takes its next (attempt, delay) and, if delay > 0, sleeps.
RetryWait ==
    /\ rpc = "loop"
    /\ attempt < Len(Schedule(delays, retries))
    /\ trace' = IF DelayOf(delays, retries, attempt) > 0
                THEN Append(trace, Sleep(DelayOf(delays, retries, attempt)))
                ELSE trace
    /\ rpc' = "call"
    /\ UNCHANGED <<retries, delays, succeedAt, attempt, rresult>>

\* `return await generate_fn(...)`: the result is returned at once; on an
\* exception the last attempt re-raises it and any other one continues.
RetryCall ==
    /\ rpc = "call"
    /\ LET n == Len(Invocations) + 1
           ok == n = succeedAt
       IN  /\ trace' = Append(trace, Invocation(n, ok))
           /\ IF ok
              THEN rpc' = "returned" /\ rresult' = Value(n) /\ attempt' = attempt
              ELSE IF IsLastAttempt(attempt, retries)
              THEN rpc' = "raised" /\ rresult' = Error(n) /\ attempt' = attempt
              ELSE rpc' = "loop" /\ rresult' = rresult /\ attempt' = attempt + 1
    /\ UNCHANGED <<retries, delays, succeedAt>>

\* The for loop is exhausted: the function ends without a return statement.
RetryFallsThrough ==
    /\ rpc = "loop"
    /\ attempt >= Len(Schedule(delays, retries))
    /\ rpc' = "returned"
    /\ rresult' = None
    /\ UNCHANGED <<retries, delays, succeedAt, attempt, trace>>

BIdle ==
    /\ file_paths = << >>
    /\ max_concurrency = 1
    /\ sem = 1
    /\ pc = << >>
    /\ pages = << >>
    /\ rasterLog = << >>
    /\ logged = << >>
    /\ results = << >>
    /\ finished = << >>
    /\ bpc = "idle"
    /\ output = [x \in {} |-> EmptyText]
    /\ cancelling = FALSE

InitRetry == BIdle /\ RInit /\ CIdle /\ SIdle

NextRetry ==
    \/ RetryWait /\ UNCHANGED <<batchVars, cleanVars, splitVars>>
    \/ RetryCall /\ UNCHANGED <<batchVars, cleanVars, splitVars>>
    \/ RetryFallsThrough /\ UNCHANGED <<batchVars, cleanVars, splitVars>>

SpecRetry == InitRetry /\ [][NextRetry]_vars

----------------------------------------------------------------------------
(* remove_repetition(text, max_consecutive).  A text is a sequence of      *)
(* characters; of the characters tried, " " is the one str.strip() removes *)
(* and "\n" the one str.split('\n') splits at.                             *)

LineChars == {"a", "-", " "}
Chars == LineChars \cup {"\n"}
Whitespace == {" "}

\* text.split('\n')
RECURSIVE Split(_)
Split(t) ==
    IF \A i \in DOMAIN t : t[i] # "\n" THEN <<t>>
    ELSE LET i == CHOOSE k \in DOMAIN t :
                      t[k] = "\n" /\ \A j \in 1..(k - 1) : t[j] # "\n"
         IN  <<SubSeq(t, 1, i - 1)>> \o Split(SubSeq(t, i + 1, Len(t)))

\* '\n'.join(cleaned_lines)
RECURSIVE Join(_)
Join(ls) ==
    IF Len(ls) = 0 THEN << >>
    ELSE IF Len(ls) = 1 THEN ls[1]
    ELSE ls[1] \o <<"\n">> \o Join(Tail(ls))

\* line.strip()
Strip(l) ==
    LET kept == {i \in DOMAIN l : l[i] \notin Whitespace}
    IN  IF kept = {} THEN << >>
        ELSE SubSeq(l, CHOOSE i \in kept : \A j \in kept : i <= j,
                       CHOOSE i \in kept : \A j \in kept : j <= i)

\* r'^(.)\1{3,}$': four equal characters are a separator already
IsSeparatorOfFour(l) ==
    LET st == Strip(l)
    IN  Len(st) >= SeparatorMin - 1 /\ \A i \in DOMAIN st : st[i] = st[1]

\* r'^(.)\1{5,}$': a separator needs one character more
IsSeparatorOfSix(l) ==
    LET st == Strip(l)
    IN  Len(st) >= SeparatorMin + 1 /\ \A i \in DOMAIN st : st[i] = st[1]

\* re.match(r'^(.)\1{4,}$', line.strip()): stripped, the line is one
\* character 5 times or more and nothing else
IsSeparator(l) ==
    LET st == Strip(l)
    IN  Len(st) >= SeparatorMin /\ \A i \in DOMAIN st : st[i] = st[1]

\* the length of the run of equal characters a non-empty line starts with
RunLength(l) ==
    CHOOSE k \in 1..Len(l) :
        /\ \A i \in 1..k : l[i] = l[1]
        /\ k = Len(l) \/ l[k + 1] # l[1]

\* re.sub with count=1: only the first long run of the line is collapsed
RECURSIVE CollapseFirstRun(_, _)
CollapseFirstRun(l, m) ==
    IF l = << >> THEN << >>
    ELSE LET k == RunLength(l)
         IN  IF k > m
             THEN [i \in 1..m |-> l[1]] \o SubSeq(l, k + 1, Len(l))
             ELSE <<l[1]>> \o CollapseFirstRun(Tail(l), m)

\* re.sub(r'(.)\1{m,}', r'\1' * m, line): from the left, every run of more
\* than m equal characters is replaced by m of them
RECURSIVE CollapseRuns(_, _)
CollapseRuns(l, m) ==
    IF l = << >> THEN << >>
    ELSE LET k == RunLength(l)
         IN  IF k > m
             THEN [i \in 1..m |-> l[1]] \o CollapseRuns(SubSeq(l, k + 1, Len(l)), m)
             ELSE <<l[1]>> \o CollapseRuns(Tail(l), m)

\* the same test letting one line more through
TooManyRepeatsLate(count, m) == count > m + 1

\* `if line_count > max_consecutive: continue`
TooManyRepeats(count, m) == count > m

\* cleaned_lines, prev_line (None at first) and line_count before the loop
LoopStart == [cleaned_lines |-> << >>, has_prev |-> FALSE,
              prev_line |-> << >>, line_count |-> 0]

\* one iteration of `for line in lines`
LoopStep(st, raw, m) ==
    IF IsSeparator(raw) THEN st
    ELSE LET line == CollapseRuns(raw, m)
         IN  IF st.has_prev /\ line = st.prev_line
             THEN IF TooManyRepeats(st.line_count + 1, m)
                  THEN [st EXCEPT !.line_count = @ + 1]
                  ELSE [st EXCEPT !.line_count = @ + 1,
                                  !.cleaned_lines = Append(@, line)]
             ELSE [cleaned_lines |-> Append(st.cleaned_lines, line),
                   has_prev |-> TRUE, prev_line |-> line, line_count |-> 1]

\* the loop over the first n lines
RECURSIVE Loop(_, _, _)
Loop(lines, m, n) ==
    IF n = 0 THEN LoopStart ELSE LoopStep(Loop(lines, m, n - 1), lines[n], m)

remove_repetition(t, m) ==
    LET lines == Split(t)
    IN  Join(Loop(lines, m, Len(lines)).cleaned_lines)

\* the texts of at most n characters
Texts(n) == SeqsUpTo(Chars, n)

CInit ==
    /\ text \in Texts(MaxTextLen)
    /\ max_consecutive \in 1..MaxConsecutive
    /\ cpc = "input"
    /\ cleaned = << >>
    /\ recleaned = << >>

\* cleaned = remove_repetition(text, max_consecutive)
Clean ==
    /\ cpc = "input"
    /\ cleaned' = remove_repetition(text, max_consecutive)
    /\ cpc' = "cleaned"
    /\ UNCHANGED <<text, max_consecutive, recleaned>>

\* the cleaned text is cleaned again
CleanAgain ==
    /\ cpc = "cleaned"
    /\ recleaned' = remove_repetition(cleaned, max_consecutive)
    /\ cpc' = "recleaned"
    /\ UNCHANGED <<text, max_consecutive, cleaned>>

InitClean == BIdle /\ RIdle /\ CInit /\ SIdle

NextClean ==
    \/ Clean /\ UNCHANGED <<batchVars, retryVars, splitVars>>
    \/ CleanAgain /\ UNCHANGED <<batchVars, retryVars, splitVars>>

SpecClean == InitClean /\ [][NextClean]_vars

----------------------------------------------------------------------------
(* split_documents(text, classification) of classification_pipeline.py.    *)
(* is_claim is an Optional[bool]: "None", "True" or "False".               *)

IsClaimValues == {"None", "True", "False"}

\* a test that None never passes
IsNoneNever(c) == FALSE

\* `classification.is_claim is None`
IsNone(c) == c = "None"

\* the truth value of `elif classification.is_claim:`
Truthy(c) == c = "True"

split_documents(t, c) ==
    IF IsNone(c) THEN [medical |-> t, claim |-> t]
    ELSE IF Truthy(c) THEN [medical |-> << >>, claim |-> t]
    ELSE [medical |-> t, claim |-> << >>]

SInit ==
    /\ text \in Texts(MaxTextLen)
    /\ max_consecutive = 1
    /\ cpc = "idle"
    /\ cleaned = << >>
    /\ recleaned = << >>
    /\ is_claim \in IsClaimValues
    /\ spc = "input"
    /\ sections = NoSections

\* sections = split_documents(text, classification)
SplitDocuments ==
    /\ spc = "input"
    /\ sections' = split_documents(text, is_claim)
    /\ spc' = "split"
    /\ UNCHANGED is_claim

InitSplit == BIdle /\ RIdle /\ SInit

NextSplit == SplitDocuments /\ UNCHANGED <<batchVars, retryVars, cleanVars>>

SpecSplit == InitSplit /\ [][NextSplit]_vars

----------------------------------------------------------------------------
(* Properties of the batch, checked under Spec.                            *)

RECURSIVE SumOver(_, _)
SumOver(f, n) == IF n = 0 THEN 0 ELSE SumOver(f, n - 1) + f[n]

\* the remote calls of task d that are in flight
ActiveCalls(d) == Cardinality({p \in DOMAIN pages[d] : pages[d][p].st = "active"})
ActiveRemoteCalls == SumOver([d \in Tasks |-> ActiveCalls(d)], Len(file_paths))

BatchEnded == bpc \in {"returned", "raised"}
\* the extraction of document d failed as a whole: its task raised, or its
\* extractor logged an error and gave up
FailedCompletely(d) == results[d].kind = "exception" \/ logged[d] # ""
PositionIn(q, x) == CHOOSE i \in DOMAIN q : q[i] = x

\* C1: at every instant at most K remote OCR calls are in flight, counted
\* over all documents and all pages of all PDFs.
C1_AtMostKRemoteCalls == ActiveRemoteCalls <= max_concurrency

\* C2: the returned mapping has exactly as many entries as the batch has
\* documents.
C2_OneEntryPerDocument ==
    bpc = "returned" => Cardinality(DOMAIN output) = Len(file_paths)

\* C3: a document whose extraction failed completely has an entry in the
\* returned mapping, and that entry differs from the empty text a document
\* extracted without error can have.
C3_FailureIsMarked ==
    bpc = "returned" =>
        \A d \in Tasks :
            FailedCompletely(d) =>
                /\ file_paths[d] \in DOMAIN output
                /\ output[file_paths[d]] # EmptyText

\* C4: the batch call never ends by raising: once every task has ended,
\* whatever failed in them, the loop over the results raises nothing and the
\* call returns its mapping.
C4_NeverRaises ==
    /\ bpc # "raised"
    /\ (\A d \in Tasks : pc[d] = "done") => ~UnpackRaises(results)

\* C4's case: the call has returned from a batch in which a task raised, a
\* rasterization failed and a remote call failed.
C4_Witness ==
    /\ bpc = "returned"
    /\ \E d \in Tasks : results[d].kind = "exception"
    /\ \E d \in Tasks : logged[d] = "PDF conversion failed"
    /\ \E d \in Tasks : \E p \in DOMAIN pages[d] : pages[d][p].st = "failed"

\* C5: when the batch call has ended every task has ended, each with an
\* outcome of its own: the tuple of its own document, or its exception.
C5_WaitsForAllTasks ==
    BatchEnded =>
        \A d \in Tasks :
            /\ pc[d] = "done"
            /\ \/ results[d].kind = "exception"
               \/ results[d].kind = "tuple" /\ results[d].path = file_paths[d]

\* C5's case: the call has returned, one task raised, and a sibling that was
\* still running then went on to end later with its text.
C5_Witness ==
    /\ bpc = "returned"
    /\ \E d, e \in Tasks :
         /\ results[d].kind = "exception"
         /\ results[e].kind = "tuple"
         /\ results[e].text # EmptyText
         /\ PositionIn(finished, d) < PositionIn(finished, e)

\* C6: a page or image is marked as failed only after its remote call has
\* been attempted as often as the retry schedule allows.
C6_FailedOnlyAfterRetries ==
    \A d \in Tasks : \A p \in DOMAIN pages[d] :
        pages[d][p].st = "failed" =>
            pages[d][p].calls = Min(DefaultRetries, Len(DefaultDelays))

\* a PDF task that got its pages and has returned their combined text
PdfReturned(d) ==
    /\ KindOf(file_paths[d]) = "pdf"
    /\ results[d].kind = "tuple"
    /\ Len(pages[d]) >= 1
\* what a text holds per page: the page texts and the failure markers
PageEntries(txt) == SelectSeq(txt, LAMBDA tok : tok.t \in {"ocr", "failed"})

\* C11: the combined text of a PDF holds one entry per page, the N-th being
\* page N's own text if its call returned and the marker "[Page N extraction
\* failed]" if it raised, whatever the other pages' calls did.
C11_PageFailureIsIsolated ==
    \A d \in Tasks :
        PdfReturned(d) =>
            LET entries == PageEntries(results[d].text)
            IN  /\ Len(entries) = Len(pages[d])
                /\ \A i \in DOMAIN pages[d] :
                     entries[i] = IF pages[d][i].st = "failed"
                                  THEN Tok("failed", i, "")
                                  ELSE Tok("ocr", i, file_paths[d])

\* C11's case: page 1 of a PDF failed, page 2 was extracted all the same.
C11_Witness ==
    \E d \in Tasks :
        /\ PdfReturned(d)
        /\ Len(pages[d]) = 2
        /\ pages[d][1].st = "failed"
        /\ pages[d][2].st = "ok"
        /\ results[d].text = FailBlock(1) \o PageBlock(file_paths[d], 2)

\* C12: in the combined text of a PDF the page numbers never decrease and
\* run over 1 .. P, in whatever order the page calls ended.
C12_PagesInIndexOrder ==
    \A d \in Tasks :
        PdfReturned(d) =>
            LET txt == results[d].text
            IN  /\ \A i, j \in DOMAIN txt : i < j => txt[i].p <= txt[j].p
                /\ {txt[i].p : i \in DOMAIN txt} = 1..Len(pages[d])

\* C12's case: the call of page 2 ended before the call of page 1.
C12_Witness ==
    \E d \in Tasks :
        /\ PdfReturned(d)
        /\ Len(pages[d]) = 2
        /\ pages[d][2].seq < pages[d][1].seq

\* C13: a PDF is given up on ("PDF conversion failed") only after
\* rasterization has been tried at 200 DPI and then at the fallback 100 DPI.
C13_FallbackBeforeGivingUp ==
    \A d \in Tasks :
        logged[d] = "PDF conversion failed" =>
            rasterLog[d] = <<CONVERSION_DPI, FALLBACK_DPI>>

\* C14: when a running batch is cancelled, what the documents that had
\* already been extracted yielded is still returned to the caller.
C14_CompletedResultsSurviveCancel ==
    bpc = "cancelled" =>
        \A d \in Tasks :
            results[d].kind = "tuple" =>
                /\ file_paths[d] \in DOMAIN output
                /\ output[file_paths[d]] = results[d].text

\* The batch of the end-to-end scenario has returned: a is of an unsupported
\* type, b a PDF of two pages whose page 1 was extracted and whose page 2
\* failed, c a structured document whose two paragraphs were read.
Scenario(a, b, c) ==
    /\ bpc = "returned"
    /\ Len(file_paths) = 3
    /\ KindOf(file_paths[a]) = "unsupported"
    /\ KindOf(file_paths[b]) = "pdf"
    /\ Len(pages[b]) = 2
    /\ pages[b][1].st = "ok"
    /\ pages[b][2].st = "failed"
    /\ KindOf(file_paths[c]) = "docx"
    /\ logged[c] = ""

\* C20: in the end-to-end scenario the mapping returned has exactly the
\* three documents, A with the empty text, B with page 1's text followed by
\* the marker of page 2, C with its two paragraphs, and no remote call was
\* made for A or C.
C20_EndToEnd ==
    \A a, b, c \in Tasks :
        Scenario(a, b, c) =>
            /\ DOMAIN output = {file_paths[a], file_paths[b], file_paths[c]}
            /\ output[file_paths[a]] = EmptyText
            /\ output[file_paths[b]] =
                   <<Tok("header", 1, ""), Tok("ocr", 1, file_paths[b]),
                     Tok("failed", 2, "")>>
            /\ output[file_paths[c]] =
                   <<Tok("para", 1, file_paths[c]), Tok("para", 2, file_paths[c])>>
            /\ pages[a] = << >>
            /\ pages[c] = << >>

\* C20's case: the scenario's batch has returned, under one slot.
C20_Witness ==
    \E a, b, c \in Tasks :
        /\ Scenario(a, b, c)
        /\ max_concurrency = 1
        /\ Cardinality(DOMAIN output) = 3
        /\ Len(output[file_paths[b]]) = 3

\* C22: with every step that can be taken eventually taken, every task gets
\* its slot and ends, and the batch call returns.  Checked under SpecLive.
C22_BatchEventuallyReturns ==
    <>(bpc = "returned" /\ \A d \in Tasks : pc[d] = "done")

\* C22's case: a batch with more documents than slots, two of them with
\* remote calls, has returned.
C22_Witness ==
    /\ bpc = "returned"
    /\ Len(file_paths) > max_concurrency
    /\ Cardinality({d \in Tasks : pages[d] # << >>}) >= 2
    /\ \A d \in Tasks : pc[d] = "done"

\* the tasks between acquiring and releasing the semaphore
Inside == {d \in Tasks : pc[d] \in {"pages", "remote"}}

\* C23: at every instant at most max_concurrency tasks are inside the gated
\* section, the slots held are those of the tasks inside, between 0 and
\* max_concurrency, and a remote call is in flight only for a task inside.
\* Checked under SpecCancel.
C23_AtMostKInsideGate ==
    /\ Cardinality(Inside) <= max_concurrency
    /\ sem \in 0..max_concurrency
    /\ max_concurrency - sem = Cardinality(Inside)
    /\ \A d \in Tasks : ActiveCalls(d) > 0 => d \in Inside

\* C23's case: both slots are held and a third document with remote work
\* waits outside.
C23_Witness ==
    /\ max_concurrency = 2
    /\ sem = 0
    /\ Cardinality(Inside) = 2
    /\ \E d \in Tasks : pc[d] = "waiting" /\ KindOf(file_paths[d]) \in {"pdf", "image"}

\* C24: when the batch call has ended, by returning, raising or being
\* cancelled, no task is inside the gated section and every slot is free.
\* Checked under SpecCancel.
C24_NoSlotHeldAtEnd ==
    bpc # "gather" =>
        /\ Inside = {}
        /\ sem = max_concurrency
        /\ \A d \in Tasks : pc[d] \in {"done", "cancelled"}

\* C24's case: one task left by raising, one was cancelled inside the gated
\* section with its page calls in flight, one was cancelled while waiting.
C24_Witness ==
    /\ bpc = "cancelled"
    /\ sem = max_concurrency
    /\ \E d \in Tasks : results[d] = ExceptionResult
    /\ \E d \in Tasks : /\ results[d] = CancelledResult
                        /\ \E p \in DOMAIN pages[d] : pages[d][p].st = "cancelled"
    /\ \E d \in Tasks : results[d] = CancelledResult /\ pages[d] = << >>

\* C25: every key of the mapping returned is a reference of the batch, and
\* its value is what that document's own task extracted: no part of it
\* comes from another document.  In whatever order the tasks ended.
C25_ValuesBelongToKeys ==
    bpc = "returned" =>
        \A x \in DOMAIN output :
            \E d \in Tasks :
                /\ file_paths[d] = x
                /\ output[x] = results[d].text
                /\ \A i \in DOMAIN output[x] : output[x][i].s \in {"", x}

\* C25's case: two documents with text, the later one of the batch ended
\* first.
C25_Witness ==
    /\ bpc = "returned"
    /\ \E i, j \in DOMAIN finished :
         /\ i < j
         /\ finished[i] > finished[j]
         /\ results[finished[i]].kind = "tuple"
         /\ results[finished[j]].kind = "tuple"
         /\ output[file_paths[finished[i]]] # EmptyText
         /\ output[file_paths[finished[j]]] # EmptyText

\* the references of the structured document and of the unsupported type
StructuredRefs == {"c.docx"}
UnsupportedRefs == {"e.txt"}

\* C26: no remote call is ever made for a structured document or for one of
\* an unsupported type, neither makes its task raise, and in the mapping
\* returned the unsupported document is there with the empty text.
C26_NoRemoteCallWithoutOcr ==
    \A d \in Tasks :
        file_paths[d] \in StructuredRefs \cup UnsupportedRefs =>
            /\ pages[d] = << >>
            /\ results[d].kind # "exception"
            /\ (bpc = "returned" /\ file_paths[d] \in UnsupportedRefs) =>
                   /\ file_paths[d] \in DOMAIN output
                   /\ output[file_paths[d]] = EmptyText

\* C26's case: a batch with both and a document with remote calls has
\* returned.
C26_Witness ==
    /\ bpc = "returned"
    /\ \E d \in Tasks : file_paths[d] \in StructuredRefs /\ results[d].text # EmptyText
    /\ \E d \in Tasks : file_paths[d] \in UnsupportedRefs
    /\ \E d \in Tasks : pages[d] # << >>

----------------------------------------------------------------------------
(* Properties of retry_gemini_async, checked under SpecRetry.              *)

RetryEnded == rpc \in {"returned", "raised"}
NoneSucceeded == \A i \in DOMAIN Invocations : ~Invocations[i].ok

\* C7 as claimed: an operation that succeeds on its k-th invocation, with
\* 1 <= k <= retries, is invoked exactly k times and the result of the k-th
\* invocation is returned.
C7_AsClaimed ==
    (RetryEnded /\ succeedAt >= 1 /\ succeedAt <= retries) =>
        /\ rpc = "returned"
        /\ rresult = Value(succeedAt)
        /\ Len(Invocations) = succeedAt

\* C7 as amended: the same for 1 <= k <= min(retries, len(delays)); the
\* k-th invocation is the last thing the call does.
C7_ReturnsKthResult ==
    (RetryEnded /\ succeedAt >= 1 /\ succeedAt <= Min(retries, Len(delays))) =>
        /\ rpc = "returned"
        /\ rresult = Value(succeedAt)
        /\ Len(Invocations) = succeedAt
        /\ trace[Len(trace)] = Invocation(succeedAt, TRUE)

\* C7's case: the default call, the operation succeeding on its 3rd invocation.
C7_Witness ==
    /\ rpc = "returned"
    /\ retries = DefaultRetries
    /\ delays = DefaultDelays
    /\ succeedAt = 3
    /\ Len(Invocations) = 3

\* C8 as claimed: an operation that always fails is invoked exactly
\* `retries` times and the error of the last invocation is raised (for
\* retries >= 1, so that there is a last invocation).
C8_AsClaimed ==
    (RetryEnded /\ succeedAt = 0 /\ retries >= 1) =>
        /\ Len(Invocations) = retries
        /\ rpc = "raised"
        /\ rresult = Error(retries)

\* C8 as amended: an operation that always fails is invoked exactly
\* min(retries, len(delays)) times, and when 1 <= retries <= len(delays) the
\* error of the last invocation is raised.
C8_RaisesLastError ==
    (RetryEnded /\ succeedAt = 0) =>
        /\ Len(Invocations) = Min(retries, Len(delays))
        /\ (retries >= 1 /\ retries <= Len(delays)) =>
               rpc = "raised" /\ rresult = Error(retries)

\* C8's case: the default call with an operation that always fails.
C8_Witness ==
    /\ rpc = "raised"
    /\ retries = DefaultRetries
    /\ delays = DefaultDelays
    /\ succeedAt = 0
    /\ Len(Invocations) = 3

\* C9: for every retries and schedule the operation is invoked at most
\* len(delays) times, and a call whose invocations have all failed ends by
\* raising the error of the last of them.
C9_NeverSwallowsError ==
    RetryEnded =>
        /\ Len(Invocations) <= Len(delays)
        /\ (Len(Invocations) >= 1 /\ NoneSucceeded) =>
               rpc = "raised" /\ rresult = Error(Len(Invocations))

\* the sleeps and invocations of attempts 0 .. n-1 when attempt i waits
\* exactly delays[i] (not at all when that is 0) and is then made
RECURSIVE ExpectedTrace(_)
ExpectedTrace(n) ==
    IF n = 0 THEN << >>
    ELSE ExpectedTrace(n - 1)
         \o (IF delays[n] > 0 THEN <<Sleep(delays[n])>> ELSE << >>)
         \o <<Invocation(n, n = succeedAt)>>

\* C10: attempt i is preceded by a wait of exactly delays[i] (none when it is
\* 0), every attempt but the first follows a failed one, and once the call
\* has ended nothing follows its last attempt.
C10_WaitsBeforeEachAttempt ==
    LET n == Len(Invocations)
    IN  /\ n <= Len(delays)
        /\ \A i \in 1..(n - 1) : ~Invocations[i].ok
        /\ IF rpc = "call"
           THEN trace = ExpectedTrace(n) \o
                        (IF delays[n + 1] > 0 THEN <<Sleep(delays[n + 1])>> ELSE << >>)
           ELSE trace = ExpectedTrace(n)

\* C10's case: the default call has made its three attempts, the 2nd after
\* 60 s and the 3rd after 180 s.
C10_Witness ==
    /\ RetryEnded
    /\ retries = DefaultRetries
    /\ delays = DefaultDelays
    /\ Len(Invocations) = 3
    /\ trace = <<Invocation(1, FALSE), Sleep(60), Invocation(2, FALSE),
                 Sleep(180), Invocation(3, succeedAt = 3)>>

----------------------------------------------------------------------------
(* Properties of remove_repetition, checked under SpecClean.               *)

\* q holds more than m equal elements in a row (characters of a line, or
\* lines of a text)
HasRunOver(q, m) ==
    \E i \in 1..(Len(q) - m) : \A j \in i..(i + m) : q[j] = q[i]

\* l is one character, n times or more, and nothing else
OneCharOnly(l, n) == Len(l) >= n /\ \A i \in DOMAIN l : l[i] = l[1]

Copies(x, n) == [i \in 1..n |-> x]

Cleaned == cpc \in {"cleaned", "recleaned"}

\* C15: cleaning a cleaned text again changes nothing, for every text and
\* every max_consecutive >= 1.
C15_Idempotent == cpc = "recleaned" => recleaned = cleaned

\* C15's case: the first cleaning changed the text and left something.
C15_Witness ==
    /\ cpc = "recleaned"
    /\ cleaned # text
    /\ cleaned # << >>
    /\ recleaned = cleaned

\* C16: a one-line text with a run of more than max_consecutive equal
\* characters comes back with each such run cut to max_consecutive; a text
\* that is nothing but such a run comes back as max_consecutive characters.
C16_RunsCollapseToLimit ==
    (Cleaned /\ "\n" \notin {text[i] : i \in DOMAIN text}
             /\ HasRunOver(text, max_consecutive)) =>
        /\ cleaned = CollapseRuns(text, max_consecutive)
        /\ OneCharOnly(text, 1) => cleaned = Copies(text[1], max_consecutive)

\* C17: the cleaned text never holds more than max_consecutive equal lines
\* in a row, and of a text that is one line repeated the first
\* max_consecutive are kept.
C17_AtMostLimitIdenticalLines ==
    Cleaned =>
        LET ls == Split(text)
        IN  /\ ~HasRunOver(Split(cleaned), max_consecutive)
            /\ (/\ \A i \in DOMAIN ls : ls[i] = ls[1]
                /\ ~OneCharOnly(Strip(ls[1]), 5)
                /\ ~HasRunOver(ls[1], max_consecutive))
               => cleaned = Join(Copies(ls[1], Min(Len(ls), max_consecutive)))

\* C17's case: a line repeated more often than max_consecutive >= 2.
C17_Witness ==
    LET ls == Split(text)
    IN  /\ cpc = "cleaned"
        /\ max_consecutive >= 2
        /\ Len(ls) > max_consecutive
        /\ ls[1] # << >>
        /\ \A i \in DOMAIN ls : ls[i] = ls[1]
        /\ cleaned = Join(Copies(ls[1], max_consecutive))

\* C18 as stated: no line of the cleaned text is one character repeated 5
\* times or more and nothing else.
C18_AsClaimed ==
    Cleaned =>
        LET ls == Split(cleaned)
        IN  \A i \in DOMAIN ls : ~OneCharOnly(ls[i], 5)

\* C18: no line of the cleaned text is, once the whitespace around it is
\* stripped, one character repeated 5 times or more and nothing else.
C18_NoSeparatorLineLeft ==
    Cleaned =>
        LET ls == Split(cleaned)
        IN  \A i \in DOMAIN ls : ~OneCharOnly(Strip(ls[i]), 5)

\* C18's case: a text with a separator line and another line that stays.
C18_Witness ==
    LET ls == Split(text)
    IN  /\ cpc = "cleaned"
        /\ \E i \in DOMAIN ls : OneCharOnly(Strip(ls[i]), 5)
        /\ cleaned # << >>

\* C19 as stated: a text with no line that is one character repeated 5 times
\* or more and nothing else, no run of more than max_consecutive equal
\* characters and no more than max_consecutive equal lines in a row comes
\* back unchanged.
C19_AsClaimed ==
    LET ls == Split(text)
    IN  (/\ Cleaned
         /\ \A i \in DOMAIN ls : ~OneCharOnly(ls[i], 5)
         /\ \A i \in DOMAIN ls : ~HasRunOver(ls[i], max_consecutive)
         /\ ~HasRunOver(ls, max_consecutive))
        => cleaned = text

\* C19: the same with a separator line being a line that, once the
\* whitespace around it is stripped, is one character repeated 5 times or
\* more and nothing else.
C19_UnchangedWithoutRepetition ==
    LET ls == Split(text)
    IN  (/\ Cleaned
         /\ \A i \in DOMAIN ls : ~OneCharOnly(Strip(ls[i]), 5)
         /\ \A i \in DOMAIN ls : ~HasRunOver(ls[i], max_consecutive)
         /\ ~HasRunOver(ls, max_consecutive))
        => cleaned = text

\* C19's case: a text of several lines, with a run of exactly
\* max_consecutive >= 2 equal characters, that needs no cleaning.
C19_Witness ==
    LET ls == Split(text)
    IN  /\ cpc = "cleaned"
        /\ max_consecutive >= 2
        /\ Len(ls) >= 2
        /\ \A i \in DOMAIN ls : ~OneCharOnly(Strip(ls[i]), 5)
        /\ \A i \in DOMAIN ls : ~HasRunOver(ls[i], max_consecutive)
        /\ \E i \in DOMAIN ls : HasRunOver(ls[i], max_consecutive - 1)
        /\ ~HasRunOver(ls, max_consecutive)
        /\ cleaned = text

----------------------------------------------------------------------------
(* Properties of split_documents, checked under SpecSplit.                 *)

\* C21: the text goes whole and unaltered to 'medical' alone when is_claim
\* is False, to 'claim' alone when it is True, to both when it is None.
C21_RoutedByClassification ==
    spc = "split" =>
        /\ DOMAIN sections = {"medical", "claim"}
        /\ is_claim = "False" => sections.medical = text /\ sections.claim = << >>
        /\ is_claim = "True" => sections.claim = text /\ sections.medical = << >>
        /\ is_claim = "None" => sections.medical = text /\ sections.claim = text
        /\ text \in {sections.medical, sections.claim}

\* C21's case: a text of several lines was split as ambiguous.
C21_Witness ==
    /\ spc = "split"
    /\ is_claim = "None"
    /\ Len(Split(text)) >= 2
    /\ Len(text) >= 3
    /\ sections.medical = text
    /\ sections.claim = text

============================================================================
